---- MODULE Spec2Model ----
(***************************************************************************)
(* Control-flow lowering of Wasynth's two Lua backends.                     *)
(*                                                                         *)
(*   codegen-luau   : structured-only dialect (break / continue / the      *)
(*                    `desired` sentinel relay)                             *)
(*   codegen-luajit : goto-capable dialect (labels + goto)                 *)
(*                                                                         *)
(* The lowering is the recursive Driver::write traversal, unfolded into    *)
(* one step per node entry / node exit (the work list `todo` is the call   *)
(* stack of the traversal).  The emitted text is kept as the sequence of   *)
(* the write! calls' format strings, and the emitted program is then run   *)
(* by an interpreter of the Lua control constructs it uses.                *)
(***************************************************************************)
EXTENDS Integers, Sequences, FiniteSets, TLC

VARIABLES
    backend,     \* "luau" | "luajit": which crate lowers the function
    frames,      \* input: kinds of the nested block constructs, outermost first
    with_else,   \* input: do the If nodes carry a falsey arm
    br,          \* input: the branch statement in the innermost construct
    fail_at,     \* input: the write to the sink that fails (0: none does)
    overflow_checks, \* input: the build panics on integer overflow
    label_list,  \* Manager.label_list
    num_label,   \* Manager.num_label (luajit: next label identifier)
    out,         \* the sink: one element per write! call
    todo,        \* pending steps of the traversal (innermost first)
    br_span,     \* <<first, last>> position in out of the lowered branch
    br_labels,   \* label_list at the moment the branch was lowered
    runs,        \* result of condense_jump_table for the lowered BrTable
    phase,       \* "lower" | "unwind" | "failed" | "panic" | "exec" | "done"
                 \* | "condense" | "condensed"
    pc,          \* interpreter: position in out
    desired,     \* interpreter: the sentinel, <<>> = nil, <<n>> = n
    temp_table,  \* interpreter: luau `local temp = { ... }`
    temp,        \* interpreter: luajit scratch `temp`
    val,         \* interpreter: value of the last evaluated expression
    relay,       \* interpreter: control effects since the branch began
    branched,    \* interpreter: the branch has transferred control
    landing      \* interpreter: <<>> or <<id>> of the statement reached

inp == <<backend, frames, with_else, br, fail_at, overflow_checks>>
low == <<label_list, num_label, out, todo, br_span, br_labels, runs>>
exe == <<pc, desired, temp_table, temp, val, relay, branched, landing>>
vars == <<backend, frames, with_else, br, fail_at, overflow_checks,
          label_list, num_label, out, todo,
          br_span, br_labels, runs, phase, pc, desired, temp_table, temp,
          val, relay, branched, landing>>

(***************************************************************************)
(* Bounds of the model.                                                    *)
(***************************************************************************)
\* Deepest nesting of block constructs in an input function (root included).
MaxDepth == 3
\* Longest br_table target list in the inputs of Spec.
MaxTable == 1
\* Longest br_table target list in the inputs of SpecTable.
MaxJumpTable == 3
\* Longest list handed to condense_jump_table in SpecCondense.
MaxList == 4
\* Largest target value in the lists of SpecCondense.
MaxTarget == 2

Last(s) == s[Len(s)]
Front(s) == SubSeq(s, 1, Len(s) - 1)
Range(s) == {s[i] : i \in 1..Len(s)}

(***************************************************************************)
(* The sink.  One token per write! call: t is the format string, a and b   *)
(* the interpolated numbers.                                               *)
(***************************************************************************)
Tok(t, a, b) == [t |-> t, a |-> a, b |-> b]
W(t) == Tok(t, 0, 0)

\* Mutant: the result of a write is dropped, the writes after it are made.
try_write_unchecked(o, toks, f) ==
    IF f > Len(o) /\ f <= Len(o) + Len(toks)
    THEN [out |-> o \o SubSeq(toks, 1, f - Len(o) - 1)
                    \o SubSeq(toks, f - Len(o) + 1, Len(toks)),
          err |-> FALSE]
    ELSE [out |-> o \o toks, err |-> FALSE]

\* A run of `write!(w, ..)?` calls on a sink whose f-th write fails: the
\* writes before it reach the sink, the failed one returns the error and the
\* ones after it are not made.
try_write(o, toks, f) ==
    IF f > Len(o) /\ f <= Len(o) + Len(toks)
    THEN [out |-> o \o SubSeq(toks, 1, f - Len(o) - 1), err |-> TRUE]
    ELSE [out |-> o \o toks, err |-> FALSE]

(***************************************************************************)
(* wasm_ast nodes.  One record shape for every node kind.                  *)
(*   Forward/Backward : body (luau: body, luajit: code), last (luajit)     *)
(*   If               : body = truthy, falsey = Option as 0/1-sequence     *)
(*   Else             : body                                               *)
(*   Br/BrIf          : target                                             *)
(*   BrTable          : table, default                                     *)
(*   Stmt             : any non-control statement, id names it             *)
(***************************************************************************)
Node(type, body, falsey, last, target, table, default, id) ==
    [type |-> type, body |-> body, falsey |-> falsey, last |-> last,
     target |-> target, table |-> table, default |-> default, id |-> id]
Stmt(id) == Node("Stmt", <<>>, <<>>, <<>>, 0, <<>>, 0, id)
Block(type, body, last) == Node(type, body, <<>>, last, 0, <<>>, 0, 0)
IfNode(truthy, falsey) == Node("If", truthy, falsey, <<>>, 0, <<>>, 0, 0)
ElseNode(body) == Node("Else", body, <<>>, <<>>, 0, <<>>, 0, 0)
BrNode(type, target, table, default) ==
    Node(type, <<>>, <<>>, <<>>, target, table, default, 0)

\* Identity of the plain statements of the input: the first and the last
\* statement of the i-th construct's body, and the one in an If's falsey arm.
PreId(i) == 3 * i - 2
PostId(i) == 3 * i - 1
ElseId(i) == 3 * i

RECURSIVE BuildLuau(_, _, _, _)
BuildLuau(fr, we, b, i) ==
    LET inner == IF i < Len(fr) THEN BuildLuau(fr, we, b, i + 1)
                 ELSE BrNode(b.type, b.target, b.table, b.default)
        body == <<Stmt(PreId(i)), inner, Stmt(PostId(i))>>
    IN IF fr[i] = "If"
       THEN IfNode(body, IF we THEN <<ElseNode(<<Stmt(ElseId(i))>>)>> ELSE <<>>)
       ELSE Block(fr[i], body, <<>>)

\* luajit: a branch is the terminator (`last`) of a Forward/Backward, and the
\* arms of an If are Forward blocks.
RECURSIVE BuildJit(_, _, _, _)
BuildJit(fr, we, b, i) ==
    LET code == IF i < Len(fr)
                THEN <<Stmt(PreId(i)), BuildJit(fr, we, b, i + 1), Stmt(PostId(i))>>
                ELSE <<Stmt(PreId(i))>>
        last == IF i < Len(fr) THEN <<>>
                ELSE <<BrNode(b.type, b.target, b.table, b.default)>>
    IN IF fr[i] = "If"
       THEN IfNode(<<Block("Forward", code, last)>>,
                   IF we THEN <<Block("Forward", <<Stmt(ElseId(i))>>, <<>>)>>
                   ELSE <<>>)
       ELSE Block(fr[i], code, last)

\* Intermediate.code / FuncData.code of the input function.
Code == IF backend = "luau" THEN BuildLuau(frames, with_else, br, 1)
        ELSE BuildJit(frames, with_else, br, 1)

(***************************************************************************)
(* Scope manager (backend/manager.rs).                                     *)
(***************************************************************************)
\* luau Manager::push_label(label): appends the frame, returns its depth.
Luau_push_label(list, label) ==
    [list |-> Append(list, label), rem |-> Len(list)]
\* luajit Manager::push_label(): appends a fresh label identifier.
Jit_push_label(list, n) ==
    [list |-> Append(list, n), label |-> n, num |-> n + 1]
\* Manager::pop_label()
pop_label(list) == Front(list)

\* A pending step of the traversal.  k = "node": call node.write;
\* the other kinds are the rest of a write function after its body.
\* expect is the label_list the step was scheduled under.
Item(k, node, rem, expect) ==
    [k |-> k, node |-> node, rem |-> rem, expect |-> expect]
Items(body, expect) ==
    [i \in 1..Len(body) |-> Item("node", body[i], 0, expect)]

Lowering(b, type) ==
    /\ phase = "lower"
    /\ backend = b
    /\ todo # <<>>
    /\ Head(todo).k = "node"
    /\ Head(todo).node.type = type
Resuming(b, k) ==
    /\ phase = "lower"
    /\ backend = b
    /\ todo # <<>>
    /\ Head(todo).k = k

\* The writes of one step and what follows them: `?` returns the error to
\* the caller, otherwise the traversal goes on with next.
Fails(toks) == try_write(out, toks, fail_at).err
Return(toks, next) ==
    /\ out' = try_write(out, toks, fail_at).out
    /\ todo' = IF Fails(toks) THEN Tail(todo) ELSE next
    /\ phase' = IF Fails(toks) THEN "unwind" ELSE phase
\* A step that panics after the writes pre (unless one of them failed
\* first): the lowering neither returns nor goes on.
Panic(pre) ==
    /\ out' = try_write(out, pre, fail_at).out
    /\ todo' = IF Fails(pre) THEN Tail(todo) ELSE todo
    /\ phase' = IF Fails(pre) THEN "unwind" ELSE "panic"
\* The last write of Intermediate::write / FuncData::write.
ReturnOk(toks) ==
    /\ out' = try_write(out, toks, fail_at).out
    /\ todo' = Tail(todo)
    /\ phase' = IF Fails(toks) THEN "unwind" ELSE "exec"

(***************************************************************************)
(* codegen-luau/src/backend/statement.rs                                   *)
(***************************************************************************)
\* Mutant: a mismatch is not re-raised (the `break` of the post-check is lost).
br_target_no_reraise(level, in_loop) ==
    <<W("if desired then "), Tok("if desired == {level} then ", level, 0),
      W("desired = nil ")>>
    \o (IF in_loop THEN <<W("continue ")>> ELSE <<>>)
    \o <<W("end "), W("end ")>>

br_target(level, in_loop) ==
    <<W("if desired then "), Tok("if desired == {level} then ", level, 0),
      W("desired = nil ")>>
    \o (IF in_loop THEN <<W("continue ")>> ELSE <<>>)
    \o <<W("end "), W("break "), W("end ")>>

\* Mutant: the post-check is written whatever the scope stack holds.
write_br_gadget_always(list, rem) ==
    IF list # <<>> /\ Last(list) = "Backward" THEN br_target(rem, TRUE)
    ELSE br_target(rem, FALSE)

write_br_gadget(list, rem) ==
    IF list = <<>> THEN <<>>
    ELSE IF Last(list) = "Backward" THEN br_target(rem, TRUE)
    ELSE br_target(rem, FALSE)

\* Forward::write and Backward::write up to the body.
Luau_block_enter(list, label) ==
    LET p == Luau_push_label(list, label)
    IN [list |-> p.list, rem |-> p.rem, toks |-> <<W("while true do ")>>]

\* Mutant: the frame is not popped.
Luau_block_leave_no_pop(list, rem) ==
    [list |-> list, pre |-> <<W("break "), W("end ")>>,
     toks |-> <<W("break "), W("end ")>> \o write_br_gadget(pop_label(list), rem)]

\* Forward::write and Backward::write after the body: pre are the writes
\* before pop_label, toks all of them.
Luau_block_leave(list, rem) ==
    [list |-> pop_label(list), pre |-> <<W("break "), W("end ")>>,
     toks |-> <<W("break "), W("end ")>> \o write_br_gadget(pop_label(list), rem)]

Luau_Forward_write ==
    /\ Lowering("luau", "Forward")
    /\ LET e == Luau_block_enter(label_list, "Forward")
       IN /\ label_list' = e.list
          /\ Return(e.toks,
                    Items(Head(todo).node.body, e.list)
                    \o <<Item("Forward_end", Head(todo).node, e.rem, e.list)>>
                    \o Tail(todo))
    /\ UNCHANGED <<inp, num_label, br_span, br_labels, runs, exe>>

Luau_Forward_end ==
    /\ Resuming("luau", "Forward_end")
    /\ LET l == Luau_block_leave(label_list, Head(todo).rem)
       IN /\ label_list' = IF Fails(l.pre) THEN label_list ELSE l.list
          /\ Return(l.toks,
                    Tail(todo))
    /\ UNCHANGED <<inp, num_label, br_span, br_labels, runs, exe>>

Luau_Backward_write ==
    /\ Lowering("luau", "Backward")
    /\ LET e == Luau_block_enter(label_list, "Backward")
       IN /\ label_list' = e.list
          /\ Return(e.toks,
                    Items(Head(todo).node.body, e.list)
                    \o <<Item("Backward_end", Head(todo).node, e.rem, e.list)>>
                    \o Tail(todo))
    /\ UNCHANGED <<inp, num_label, br_span, br_labels, runs, exe>>

Luau_Backward_end ==
    /\ Resuming("luau", "Backward_end")
    /\ LET l == Luau_block_leave(label_list, Head(todo).rem)
       IN /\ label_list' = IF Fails(l.pre) THEN label_list ELSE l.list
          /\ Return(l.toks,
                    Tail(todo))
    /\ UNCHANGED <<inp, num_label, br_span, br_labels, runs, exe>>

\* If::write up to the truthy statements.
Luau_If_enter(list) ==
    LET p == Luau_push_label(list, "If")
    IN [list |-> p.list, rem |-> p.rem,
        toks |-> <<W("while true do "), W("if "), W("<expr>"), W("~= 0 then ")>>]

\* If::write after the arms.
Luau_If_leave(list, rem) ==
    [list |-> pop_label(list), pre |-> <<W("end "), W("break "), W("end ")>>,
     toks |-> <<W("end "), W("break "), W("end ")>>
              \o write_br_gadget(pop_label(list), rem)]

Luau_If_write ==
    /\ Lowering("luau", "If")
    /\ LET e == Luau_If_enter(label_list)
           node == Head(todo).node
       IN /\ label_list' = e.list
          /\ Return(e.toks,
                    Items(node.body, e.list) \o Items(node.falsey, e.list)
                    \o <<Item("If_end", node, e.rem, e.list)>>
                    \o Tail(todo))
    /\ UNCHANGED <<inp, num_label, br_span, br_labels, runs, exe>>

Luau_Else_write ==
    /\ Lowering("luau", "Else")
    /\ Return(<<W("else ")>>,
              Items(Head(todo).node.body, label_list) \o Tail(todo))
    /\ UNCHANGED <<inp, label_list, num_label, br_span, br_labels, runs, exe>>

Luau_If_end ==
    /\ Resuming("luau", "If_end")
    /\ LET l == Luau_If_leave(label_list, Head(todo).rem)
       IN /\ label_list' = IF Fails(l.pre) THEN label_list ELSE l.list
          /\ Return(l.toks,
                    Tail(todo))
    /\ UNCHANGED <<inp, num_label, br_span, br_labels, runs, exe>>

\* Mutant: the subtraction wraps in every build (wrapping_sub).
Luau_level_wraps(up, list) == FALSE

\* `len() - 1 - up` on usize, up # 0: the result would be negative.  A build
\* with overflow checks panics there; any other build wraps modulo 2^64 (the
\* model then keeps the level as the negative number len - 1 - up, which
\* stands for 2^64 + len - 1 - up).
Luau_level_underflows(up, list) == up # 0 /\ up > Len(list) - 1

\* Mutant: the kind of the innermost frame is not looked at.
Luau_write_br_at_always_break(up, list) ==
    <<W("do ")>>
    \o (IF up = 0
        THEN <<W("break ")>>
        ELSE <<Tok("desired = {level} ", Len(list) - 1 - up, 0), W("break ")>>)
    \o <<W("end ")>>

Luau_write_br_at(up, list) ==
    <<W("do ")>>
    \o (IF up = 0
        THEN (IF list # <<>> /\ Last(list) = "Backward"
              THEN <<W("continue ")>> ELSE <<W("break ")>>)
        ELSE <<Tok("desired = {level} ", Len(list) - 1 - up, 0), W("break ")>>)
    \o <<W("end ")>>

\* BrIf::write
Luau_BrIf_toks(up, list) ==
    <<W("if "), W("<expr>"), W("~= 0 then ")>> \o Luau_write_br_at(up, list)
    \o <<W("end ")>>

\* BrTable::write
Luau_BrTable_toks(table, default) ==
    <<W("do "), W("local temp = {{")>>
    \o (IF table # <<>>
        THEN <<W("[0] =")>> \o [i \in 1..Len(table) |-> Tok("{d}, ", table[i], 0)]
        ELSE <<>>)
    \o <<W("}} "), W("desired = temp["), W("<expr>"),
         Tok("] or {} ", default, 0), W("break "), W("end ")>>

\* The lowered branch as a whole, and where it lies in the sink.
\* A branch whose lowering panics after the writes pre.
PanicBranch(pre) ==
    /\ Panic(pre)
    /\ UNCHANGED <<br_span, br_labels>>

EmitBranch(toks) ==
    /\ br_span' = IF Fails(toks) THEN br_span
                  ELSE <<Len(out) + 1, Len(out) + Len(toks)>>
    /\ br_labels' = label_list
    /\ Return(toks,
              Tail(todo))

Luau_Br_write ==
    /\ Lowering("luau", "Br")
    /\ IF overflow_checks /\ Luau_level_underflows(Head(todo).node.target, label_list)
       THEN PanicBranch(<<W("do ")>>)
       ELSE EmitBranch(Luau_write_br_at(Head(todo).node.target, label_list))
    /\ UNCHANGED <<inp, label_list, num_label, runs, exe>>

Luau_BrIf_write ==
    /\ Lowering("luau", "BrIf")
    /\ IF overflow_checks /\ Luau_level_underflows(Head(todo).node.target, label_list)
       THEN PanicBranch(<<W("if "), W("<expr>"), W("~= 0 then "), W("do ")>>)
       ELSE EmitBranch(Luau_BrIf_toks(Head(todo).node.target, label_list))
    /\ UNCHANGED <<inp, label_list, num_label, runs, exe>>

Luau_BrTable_write ==
    /\ Lowering("luau", "BrTable")
    /\ EmitBranch(Luau_BrTable_toks(Head(todo).node.table, Head(todo).node.default))
    /\ UNCHANGED <<inp, label_list, num_label, runs, exe>>

\* Statement::write of a non-control statement (Call, SetLocal, ...).
Luau_Statement_write ==
    /\ Lowering("luau", "Stmt")
    /\ Return(<<Tok("<stmt>", Head(todo).node.id, 0)>>,
              Tail(todo))
    /\ UNCHANGED <<inp, label_list, num_label, br_span, br_labels, runs, exe>>

\* Intermediate::write up to self.code.write (no parameters, memories,
\* locals or temporaries in the inputs of the model).
Luau_Intermediate_write ==
    /\ Resuming("luau", "func")
    /\ Return(<<W("function("), W(")")>>,
              <<Item("node", Head(todo).node, 0, label_list),
              Item("func_end", Head(todo).node, 0, label_list)>>)
    /\ UNCHANGED <<inp, label_list, num_label, br_span, br_labels, runs, exe>>

Luau_Intermediate_end ==
    /\ Resuming("luau", "func_end")
    /\ ReturnOk(<<W("end ")>>)
    /\ UNCHANGED <<inp, label_list, num_label, br_span, br_labels, runs, exe>>

LuauLower ==
    \/ Luau_Intermediate_write
    \/ Luau_Forward_write
    \/ Luau_Backward_write
    \/ Luau_If_write
    \/ Luau_Else_write
    \/ Luau_Br_write
    \/ Luau_BrIf_write
    \/ Luau_BrTable_write
    \/ Luau_Statement_write
    \/ Luau_Forward_end
    \/ Luau_Backward_end
    \/ Luau_If_end
    \/ Luau_Intermediate_end

(***************************************************************************)
(* codegen-luajit/src/backend/statement.rs                                 *)
(***************************************************************************)
\* label_list().iter().nth_back(up) is None: unwrap() panics.
Jit_unwrap_fails(up, list) == up >= Len(list)

\* Mutant: the frame is counted from the outermost end (nth instead of nth_back).
Jit_write_br_at_nth(up, list) ==
    <<Tok("goto continue_at_{level} ", list[up + 1], 0)>>

\* label_list().iter().nth_back(up).unwrap()
Jit_write_br_at(up, list) ==
    <<Tok("goto continue_at_{level} ", list[Len(list) - up], 0)>>

\* The inner `loop` of condense_jump_table: index (0-based) after the run
\* that starts at index.
RECURSIVE run_end(_, _)
run_end(list, index) ==
    LET next == index + 1
    IN IF next = Len(list) \/ list[next] # list[next + 1]
       THEN next
       ELSE run_end(list, next)

\* Mutant: the run is closed one position late (index instead of index - 1).
RECURSIVE condense_from_late(_, _, _)
condense_from_late(list, index, result) ==
    IF index < Len(list)
    THEN LET next == run_end(list, index)
         IN condense_from_late(list, next,
                               Append(result, <<index, next, list[index + 1]>>))
    ELSE result

\* The outer `while` of condense_jump_table.
RECURSIVE condense_from(_, _, _)
condense_from(list, index, result) ==
    IF index < Len(list)
    THEN LET next == run_end(list, index)
         IN condense_from(list, next,
                          Append(result, <<index, next - 1, list[index + 1]>>))
    ELSE result

condense_jump_table(list) == condense_from(list, 0, <<>>)

\* Mutant: the one-value case is not told apart from a range.
Jit_guard_range_only(run, list) ==
    <<Tok("if temp >= {start} and temp <= {end} then ", run[1], run[2])>>
    \o Jit_write_br_at(run[3], list)
    \o <<W("else")>>

\* The test of a run: `if start == end { .. } else { .. }`.
Jit_guard_test(run) ==
    IF run[1] = run[2]
    THEN Tok("if temp == {start} then ", run[1], 0)
    ELSE Tok("if temp >= {start} and temp <= {end} then ", run[1], run[2])

\* One iteration of the `for (start, end, dest)` loop of BrTable::write.
Jit_guard(run, list) ==
    <<Jit_guard_test(run)>>
    \o Jit_write_br_at(run[3], list)
    \o <<W("else")>>

RECURSIVE Jit_chain(_, _, _)
Jit_chain(rs, i, list) ==
    IF i > Len(rs) THEN <<>>
    ELSE Jit_guard(rs[i], list) \o Jit_chain(rs, i + 1, list)

\* Mutant: no early return for the empty table.
Jit_BrTable_toks_no_early_return(table, default, list) ==
    <<W("temp = "), W("<expr>")>>
    \o Jit_chain(condense_jump_table(table), 1, list)
    \o <<W(" ")>> \o Jit_write_br_at(default, list) \o <<W("end ")>>

\* BrTable::write
Jit_BrTable_toks(table, default, list) ==
    IF table = <<>>
    THEN Jit_write_br_at(default, list)
    ELSE <<W("temp = "), W("<expr>")>>
         \o Jit_chain(condense_jump_table(table), 1, list)
         \o <<W(" ")>> \o Jit_write_br_at(default, list) \o <<W("end ")>>

\* BrTable::write resolves the runs' targets in order, then the default.
Jit_BrTable_panics(table, default, list) ==
    \/ Jit_unwrap_fails(default, list)
    \/ \E i \in 1..Len(table) : Jit_unwrap_fails(table[i], list)
\* The guards written before the first target that does not resolve.
RECURSIVE Jit_chain_until_panic(_, _, _)
Jit_chain_until_panic(rs, i, list) ==
    IF i > Len(rs) THEN <<W(" ")>>
    ELSE IF Jit_unwrap_fails(rs[i][3], list)
    THEN <<Jit_guard_test(rs[i])>>
    ELSE Jit_guard(rs[i], list) \o Jit_chain_until_panic(rs, i + 1, list)
\* What BrTable::write has written when it panics.
Jit_BrTable_panic_prefix(table, default, list) ==
    IF table = <<>> THEN <<>>
    ELSE <<W("temp = "), W("<expr>")>>
         \o Jit_chain_until_panic(condense_jump_table(table), 1, list)

\* Forward::write up to the body: the label is pushed, nothing is written.
Jit_Forward_enter(list, n) ==
    LET p == Jit_push_label(list, n)
    IN [list |-> p.list, label |-> p.label, num |-> p.num, toks |-> <<>>]

\* Mutant: the anchor is forgotten.
Jit_Forward_leave_no_anchor(list, label) ==
    [list |-> pop_label(list), pre |-> <<>>, toks |-> <<>>]

\* Mutant: the anchor is named after the nesting depth, not the pushed label.
Jit_Forward_leave_depth_anchor(list, label) ==
    [list |-> pop_label(list),
     pre |-> <<Tok("::continue_at_{label}::", Len(list) - 1, 0)>>,
     toks |-> <<Tok("::continue_at_{label}::", Len(list) - 1, 0)>>]

\* Forward::write after body and terminator.
Jit_Forward_leave(list, label) ==
    [list |-> pop_label(list),
     pre |-> <<Tok("::continue_at_{label}::", label, 0)>>,
     toks |-> <<Tok("::continue_at_{label}::", label, 0)>>]

\* Backward::write up to the body.
Jit_Backward_enter(list, n) ==
    LET p == Jit_push_label(list, n)
    IN [list |-> p.list, label |-> p.label, num |-> p.num,
        toks |-> <<Tok("::continue_at_{label}::", p.label, 0), W("while true do ")>>]

\* Backward::write after body and terminator.
Jit_Backward_leave(list, label) ==
    [list |-> pop_label(list), pre |-> <<W("break "), W("end ")>>,
     toks |-> <<W("break "), W("end ")>>]

Jit_Forward_write ==
    /\ Lowering("luajit", "Forward")
    /\ LET e == Jit_Forward_enter(label_list, num_label)
           node == Head(todo).node
       IN /\ label_list' = e.list
          /\ num_label' = e.num
          /\ Return(e.toks,
                    Items(node.body, e.list) \o Items(node.last, e.list)
                    \o <<Item("Forward_end", node, e.label, e.list)>>
                    \o Tail(todo))
    /\ UNCHANGED <<inp, br_span, br_labels, runs, exe>>

Jit_Forward_end ==
    /\ Resuming("luajit", "Forward_end")
    /\ LET l == Jit_Forward_leave(label_list, Head(todo).rem)
       IN /\ label_list' = IF Fails(l.pre) THEN label_list ELSE l.list
          /\ Return(l.toks,
                    Tail(todo))
    /\ UNCHANGED <<inp, num_label, br_span, br_labels, runs, exe>>

Jit_Backward_write ==
    /\ Lowering("luajit", "Backward")
    /\ LET e == Jit_Backward_enter(label_list, num_label)
           node == Head(todo).node
       IN /\ label_list' = e.list
          /\ num_label' = e.num
          /\ Return(e.toks,
                    Items(node.body, e.list) \o Items(node.last, e.list)
                    \o <<Item("Backward_end", node, e.label, e.list)>>
                    \o Tail(todo))
    /\ UNCHANGED <<inp, br_span, br_labels, runs, exe>>

Jit_Backward_end ==
    /\ Resuming("luajit", "Backward_end")
    /\ LET l == Jit_Backward_leave(label_list, Head(todo).rem)
       IN /\ label_list' = IF Fails(l.pre) THEN label_list ELSE l.list
          /\ Return(l.toks,
                    Tail(todo))
    /\ UNCHANGED <<inp, num_label, br_span, br_labels, runs, exe>>

\* If::write up to self.truthy.write: no frame is pushed.
Jit_If_enter(list) ==
    [list |-> list, toks |-> <<W("if "), W("<cond>"), W("then ")>>]

Jit_If_write ==
    /\ Lowering("luajit", "If")
    /\ LET e == Jit_If_enter(label_list)
           node == Head(todo).node
       IN /\ label_list' = e.list
          /\ Return(e.toks,
                    Items(node.body, e.list)
                    \o [i \in 1..Len(node.falsey) |->
                    Item("If_else", node.falsey[i], 0, e.list)]
                    \o <<Item("If_end", node, 0, e.list)>>
                    \o Tail(todo))
    /\ UNCHANGED <<inp, num_label, br_span, br_labels, runs, exe>>

Jit_If_else ==
    /\ Resuming("luajit", "If_else")
    /\ Return(<<W("else ")>>,
              <<Item("node", Head(todo).node, 0, label_list)>> \o Tail(todo))
    /\ UNCHANGED <<inp, label_list, num_label, br_span, br_labels, runs, exe>>

Jit_If_end ==
    /\ Resuming("luajit", "If_end")
    /\ Return(<<W("end ")>>,
              Tail(todo))
    /\ UNCHANGED <<inp, label_list, num_label, br_span, br_labels, runs, exe>>

Jit_Br_write ==
    /\ Lowering("luajit", "Br")
    /\ IF Jit_unwrap_fails(Head(todo).node.target, label_list)
       THEN PanicBranch(<<>>)
       ELSE EmitBranch(Jit_write_br_at(Head(todo).node.target, label_list))
    /\ UNCHANGED <<inp, label_list, num_label, runs, exe>>

Jit_BrTable_write ==
    /\ Lowering("luajit", "BrTable")
    /\ LET node == Head(todo).node
       IN IF Jit_BrTable_panics(node.table, node.default, label_list)
          THEN PanicBranch(Jit_BrTable_panic_prefix(node.table, node.default,
                                                    label_list))
          ELSE EmitBranch(Jit_BrTable_toks(node.table, node.default, label_list))
    /\ runs' = IF Head(todo).node.table = <<>> THEN <<>>
               ELSE condense_jump_table(Head(todo).node.table)
    /\ UNCHANGED <<inp, label_list, num_label, exe>>

Jit_Statement_write ==
    /\ Lowering("luajit", "Stmt")
    /\ Return(<<Tok("<stmt>", Head(todo).node.id, 0)>>,
              Tail(todo))
    /\ UNCHANGED <<inp, label_list, num_label, br_span, br_labels, runs, exe>>

\* FuncData::write up to self.code.write (no parameters, locals,
\* temporaries or results in the inputs of the model).
Jit_FuncData_write ==
    /\ Resuming("luajit", "func")
    /\ Return(<<W("function("), W(")"), W("local temp ")>>,
              <<Item("node", Head(todo).node, 0, label_list),
              Item("func_end", Head(todo).node, 0, label_list)>>)
    /\ UNCHANGED <<inp, label_list, num_label, br_span, br_labels, runs, exe>>

Jit_FuncData_end ==
    /\ Resuming("luajit", "func_end")
    /\ ReturnOk(<<W("end ")>>)
    /\ UNCHANGED <<inp, label_list, num_label, br_span, br_labels, runs, exe>>

JitLower ==
    \/ Jit_FuncData_write
    \/ Jit_Forward_write
    \/ Jit_Backward_write
    \/ Jit_If_write
    \/ Jit_If_else
    \/ Jit_Br_write
    \/ Jit_BrTable_write
    \/ Jit_Statement_write
    \/ Jit_Forward_end
    \/ Jit_Backward_end
    \/ Jit_If_end
    \/ Jit_FuncData_end

(***************************************************************************)
(* Running the emitted program.  The semantics of the Lua constructs the   *)
(* two backends emit: `while true do .. end`, `break`, `continue`,         *)
(* `if .. then .. else .. end`, `do .. end`, assignment to the sentinel,   *)
(* labels and `goto`.                                                      *)
(***************************************************************************)
OpenToks == {"function(", "while true do ", "do ", "if ", "if desired then ",
             "if desired == {level} then "}
GuardToks == {"if temp == {start} then ",
              "if temp >= {start} and temp <= {end} then "}
\* A guard written right after "else" continues an elseif chain.
Opens(i) ==
    \/ out[i].t \in OpenToks
    \/ out[i].t \in GuardToks /\ out[i - 1].t # "else"
Closes(i) == out[i].t = "end "

\* First position from i on that holds one of the tokens S at the nesting
\* level of the block entered just before i (d = 1 at i).
RECURSIVE FindAt(_, _, _)
FindAt(i, d, S) ==
    IF i > Len(out) THEN i
    ELSE IF d = 1 /\ out[i].t \in S THEN i
    ELSE IF Opens(i) THEN FindAt(i + 1, d + 1, S)
    ELSE IF Closes(i) THEN FindAt(i + 1, d - 1, S)
    ELSE FindAt(i + 1, d, S)

\* The `end` of the block opened at i.
MatchEnd(i) == FindAt(i + 1, 1, {"end "})

\* Openers of the blocks that enclose position p, outermost first.
RECURSIVE BlockStack(_, _, _)
BlockStack(i, p, stack) ==
    IF i >= p THEN stack
    ELSE IF Opens(i) THEN BlockStack(i + 1, p, Append(stack, i))
    ELSE IF Closes(i) THEN BlockStack(i + 1, p, Front(stack))
    ELSE BlockStack(i + 1, p, stack)

\* The innermost loop enclosing position p: the one break/continue act on.
InnerWhile(p) ==
    LET st == BlockStack(1, p, <<>>)
        ws == {k \in 1..Len(st) : out[st[k]].t = "while true do "}
    IN st[CHOOSE k \in ws : \A j \in ws : j <= k]

\* Position of the anchor of a label.
Anchor(label) ==
    CHOOSE i \in 1..Len(out) :
        out[i].t = "::continue_at_{label}::" /\ out[i].a = label

InSpan(p) == br_span # <<>> /\ p >= br_span[1] /\ p <= br_span[2]
Eff(e, a) == [e |-> e, a |-> a]
\* Control effects are recorded from the branch statement on.
Log(p, effs) == IF branched \/ InSpan(p) THEN relay \o effs ELSE relay

\* Values an expression of the input may take: a condition is zero or not,
\* a br_table discriminant is an index of the table or past its end.
ExprVals(p) ==
    IF out[p + 1].t \in {"~= 0 then ", "then "} THEN {0, 1}
    ELSE 0..Len(br.table)

\* End of an `end` token: what it closes decides.
EndTarget(p) ==
    LET st == BlockStack(1, p, <<>>)
    IN IF out[Last(st)].t = "while true do " THEN Last(st) + 1 ELSE p + 1
AtFunctionEnd(p) ==
    /\ out[p].t = "end "
    /\ out[Last(BlockStack(1, p, <<>>))].t = "function("

\* Position after the token at p, for the tokens both dialects share.
JumpOf(p) ==
    LET t == out[p].t
    IN CASE t = "break " -> MatchEnd(InnerWhile(p)) + 1
         [] t = "continue " -> InnerWhile(p) + 1
         [] t = "end " -> EndTarget(p)
         [] t \in {"else ", "else"} -> FindAt(p + 1, 1, {"end "}) + 1
         [] t \in {"~= 0 then ", "then "} ->
                IF val # 0 THEN p + 1
                ELSE FindAt(p + 1, 1, {"else ", "end "}) + 1
         [] OTHER -> p + 1

Running(b) ==
    /\ phase = "exec"
    /\ backend = b
    /\ pc <= Len(out)

\* The function returns, or the first plain statement after the branch runs.
Finish(id) ==
    /\ phase' = "done"
    /\ landing' = IF branched THEN <<id>> ELSE <<>>
    /\ UNCHANGED <<pc, desired, temp_table, temp, val, relay, branched>>

ExecLuau ==
    /\ Running("luau")
    /\ LET tk == out[pc]
           t == tk.t
       IN IF AtFunctionEnd(pc) THEN Finish(0)
          ELSE IF t = "<stmt>" /\ branched THEN Finish(tk.a)
          ELSE
            /\ pc' = CASE t = "if desired then " ->
                            IF desired # <<>> THEN pc + 1 ELSE MatchEnd(pc) + 1
                       [] t = "if desired == {level} then " ->
                            IF desired = <<tk.a>> THEN pc + 1 ELSE MatchEnd(pc) + 1
                       [] OTHER -> JumpOf(pc)
            /\ desired' = CASE t = "desired = nil " -> <<>>
                            [] t = "desired = {level} " -> <<tk.a>>
                            [] t = "] or {} " ->
                                 IF val < Len(temp_table)
                                 THEN <<temp_table[val + 1]>> ELSE <<tk.a>>
                            [] OTHER -> desired
            /\ temp_table' = CASE t = "local temp = {{" -> <<>>
                               [] t = "{d}, " -> Append(temp_table, tk.a)
                               [] OTHER -> temp_table
            /\ val' \in IF t = "<expr>" THEN ExprVals(pc) ELSE {val}
            /\ relay' = CASE t = "break " -> Log(pc, <<Eff("break", 0)>>)
                          [] t = "continue " -> Log(pc, <<Eff("continue", 0)>>)
                          [] t = "desired = nil " -> Log(pc, <<Eff("clear", 0)>>)
                          [] t \in {"desired = {level} ", "] or {} "} ->
                               Log(pc, <<Eff("set", desired'[1])>>)
                          [] t = "if desired == {level} then " ->
                               Log(pc, <<Eff(IF desired = <<tk.a>> THEN "hit"
                                             ELSE "miss", tk.a)>>)
                          [] OTHER -> relay
            /\ branched' = (branched \/ (InSpan(pc) /\ t \in {"break ", "continue "}))
            /\ UNCHANGED <<temp, landing, phase>>
    /\ UNCHANGED <<inp, low>>

ExecJit ==
    /\ Running("luajit")
    /\ LET tk == out[pc]
           t == tk.t
       IN IF AtFunctionEnd(pc) THEN Finish(0)
          ELSE IF t = "<stmt>" /\ branched THEN Finish(tk.a)
          ELSE
            /\ pc' = CASE t = "goto continue_at_{level} " -> Anchor(tk.a) + 1
                       [] t = "if temp == {start} then " ->
                            IF temp = tk.a THEN pc + 1
                            ELSE FindAt(pc + 1, 1, {"else"}) + 1
                       [] t = "if temp >= {start} and temp <= {end} then " ->
                            IF temp >= tk.a /\ temp <= tk.b THEN pc + 1
                            ELSE FindAt(pc + 1, 1, {"else"}) + 1
                       [] OTHER -> JumpOf(pc)
            /\ val' \in IF t \in {"<expr>", "<cond>"} THEN ExprVals(pc) ELSE {val}
            /\ temp' = IF t = "<expr>" /\ out[pc - 1].t = "temp = " THEN val' ELSE temp
            /\ relay' = CASE t = "goto continue_at_{level} " ->
                               Log(pc, <<Eff("goto", tk.a)>>)
                          [] t = "break " -> Log(pc, <<Eff("break", 0)>>)
                          [] OTHER -> relay
            /\ branched' = (branched \/ (InSpan(pc) /\ t = "goto continue_at_{level} "))
            /\ UNCHANGED <<desired, temp_table, landing, phase>>
    /\ UNCHANGED <<inp, low>>

(***************************************************************************)
(* Inputs.                                                                 *)
(***************************************************************************)
Kinds == {"Forward", "Backward", "If"}
\* The function body is a Forward; the constructs nested in it are free.
FrameSeqs(lo, hi) ==
    {<<"Forward">> \o s : s \in UNION {[1..n -> Kinds] : n \in (lo - 1)..(hi - 1)}}
Tables(n, len) == UNION {[1..k -> 0..(n - 1)] : k \in 0..len}
BrD(type, target, table, default) ==
    [type |-> type, target |-> target, table |-> table, default |-> default]
Branches(b, n, len) ==
    {BrD("Br", up, <<>>, 0) : up \in 0..(n - 1)}
    \cup (IF b = "luau" THEN {BrD("BrIf", up, <<>>, 0) : up \in 0..(n - 1)} ELSE {})
    \cup {BrD("BrTable", 0, t, d) : t \in Tables(n, len), d \in 0..(n - 1)}

InitRest ==
    /\ label_list = <<>>
    /\ num_label = 0
    /\ out = <<>>
    /\ todo = <<Item("func", Code, 0, <<>>)>>
    /\ br_span = <<>>
    /\ br_labels = <<>>
    /\ runs = <<>>
    /\ pc = 1
    /\ desired = <<>>
    /\ temp_table = <<>>
    /\ temp = 0
    /\ val = 0
    /\ relay = <<>>
    /\ branched = FALSE
    /\ landing = <<>>

Init ==
    /\ backend \in {"luau", "luajit"}
    /\ frames \in FrameSeqs(1, MaxDepth)
    /\ with_else \in (IF "If" \in Range(frames) THEN BOOLEAN ELSE {FALSE})
    /\ br \in Branches(backend, Len(frames), MaxTable)
    /\ fail_at = 0
    /\ overflow_checks = TRUE
    /\ InitRest
    /\ phase = "lower"

Next == LuauLower \/ JitLower \/ ExecLuau \/ ExecJit

Spec == Init /\ [][Next]_vars

(***************************************************************************)
(* SpecTable: the goto-capable backend on longer br_table target lists.    *)
(***************************************************************************)
\* Nesting depth of the inputs of SpecTable.
TableDepth == 2

InitTable ==
    /\ backend = "luajit"
    /\ frames \in FrameSeqs(TableDepth, TableDepth)
    /\ with_else \in (IF "If" \in Range(frames) THEN BOOLEAN ELSE {FALSE})
    /\ br \in Branches(backend, Len(frames), MaxJumpTable)
    /\ fail_at = 0
    /\ overflow_checks = TRUE
    /\ InitRest
    /\ phase = "lower"

NextTable == JitLower \/ ExecJit

SpecTable == InitTable /\ [][NextTable]_vars

(***************************************************************************)
(* SpecCondense: condense_jump_table on its own, the empty list and the    *)
(* list [0,0,0,1,1,2] included.                                            *)
(***************************************************************************)
Lists ==
    UNION {[1..k -> 0..MaxTarget] : k \in 0..MaxList} \cup {<<0, 0, 0, 1, 1, 2>>}

InitCondense ==
    /\ backend = "luajit"
    /\ frames = <<"Forward">>
    /\ with_else = FALSE
    /\ br \in {BrD("BrTable", 0, t, 0) : t \in Lists}
    /\ fail_at = 0
    /\ overflow_checks = TRUE
    /\ InitRest
    /\ phase = "condense"

Condense ==
    /\ phase = "condense"
    /\ runs' = condense_jump_table(br.table)
    /\ phase' = "condensed"
    /\ UNCHANGED <<inp, label_list, num_label, out, todo, br_span, br_labels, exe>>

NextCondense == Condense

SpecCondense == InitCondense /\ [][NextCondense]_vars
(***************************************************************************)
(* SpecSink: lowering to a sink one of whose writes fails.                 *)
(***************************************************************************)
\* Deepest nesting of the inputs of SpecSink.
SinkDepth == 2
\* Latest write that may fail in SpecSink.
MaxFail == 12

\* The error on its way up: every `?` between the failed write and the
\* caller of the function returns it (try_for_each stops at the first error),
\* so each pending step is dropped without being run; with none left the
\* lowering of the function has returned the error.
Propagate ==
    /\ phase = "unwind"
    /\ IF todo # <<>>
       THEN todo' = Tail(todo) /\ phase' = phase
       ELSE todo' = todo /\ phase' = "failed"
    /\ UNCHANGED <<inp, label_list, num_label, out, br_span, br_labels, runs, exe>>

InitSink ==
    /\ backend \in {"luau", "luajit"}
    /\ frames \in FrameSeqs(1, SinkDepth)
    /\ with_else \in (IF "If" \in Range(frames) THEN BOOLEAN ELSE {FALSE})
    /\ br \in Branches(backend, Len(frames), MaxTable)
    /\ fail_at \in 0..MaxFail
    /\ overflow_checks = TRUE
    /\ InitRest
    /\ phase = "lower"

NextSink == LuauLower \/ JitLower \/ Propagate

SpecSink == InitSink /\ [][NextSink]_vars

(***************************************************************************)
(* SpecRange: lowering of branches whose depth may exceed the scope stack.  *)
(***************************************************************************)
\* Deepest nesting of the inputs of SpecRange.
RangeDepth == 2
\* How far past the outermost frame a depth of SpecRange may point.
MaxOver == 1

InitRange ==
    /\ backend \in {"luau", "luajit"}
    /\ frames \in FrameSeqs(1, RangeDepth)
    /\ with_else \in (IF "If" \in Range(frames) THEN BOOLEAN ELSE {FALSE})
    /\ br \in Branches(backend, Len(frames) + MaxOver, MaxTable)
    /\ fail_at = 0
    /\ overflow_checks \in BOOLEAN
    /\ InitRest
    /\ phase = "lower"

NextRange == LuauLower \/ JitLower

SpecRange == InitRange /\ [][NextRange]_vars

(***************************************************************************)
(* Branch semantics of the input tree.                                     *)
(***************************************************************************)
\* Value of the br_table discriminant the emitted program evaluated.
Disc == IF backend = "luau" THEN val ELSE temp
\* The relative depth the executed branch names.
TakenDepth ==
    IF br.type = "BrTable"
    THEN (IF Disc < Len(br.table) THEN br.table[Disc + 1] ELSE br.default)
    ELSE br.target
\* The construct a branch of depth d in the innermost body targets.
TargetOf(d) == Len(frames) - d
\* Where the input tree continues after a branch of depth d: a Backward
\* restarts its body, any other construct is left and the statement after
\* it runs (0: the function body is left, the function returns).
RefLanding(d) ==
    LET t == TargetOf(d)
    IN IF frames[t] = "Backward" THEN PreId(t)
       ELSE IF t = 1 THEN 0
       ELSE PostId(t - 1)

Taken == phase = "done" /\ branched

\* C1: structured-only backend, end to end: for every well-formed input tree,
\* running the lowered output reaches the same next statement as the input
\* tree's branch semantics (after the construct for Forward/If targets, at the
\* start of the loop body for Backward targets), whatever frame is targeted
\* and whatever encloses it.
C1_StructuredReachesSamePosition ==
    (backend = "luau" /\ Taken) => landing = <<RefLanding(TakenDepth)>>

\* The relay the spec describes for Br(up), up > 0, in a body nested n deep:
\* write the target's depth, break; every wrapper between re-raises; the
\* target's own post-check matches, clears, and continues iff it is a loop.
RECURSIVE Reraised(_, _)
Reraised(j, level) ==
    IF j <= level THEN <<>>
    ELSE <<Eff("miss", j), Eff("break", 0)>> \o Reraised(j - 1, level)
SpecRelay(up) ==
    LET level == Len(frames) - 1 - up
    IN <<Eff("set", level), Eff("break", 0)>>
       \o Reraised(Len(frames) - 1, level)
       \o <<Eff("hit", level), Eff("clear", 0)>>
       \o (IF frames[TargetOf(up)] = "Backward" THEN <<Eff("continue", 0)>>
           ELSE <<>>)

\* C2: structured-only relay, step by step: Br(up), up > 0, writes the target
\* frame's depth and breaks; each wrapper between mismatches and breaks again;
\* the target's own post-check matches, clears, then continues iff the target
\* is Backward, otherwise control falls through to the statement after the
\* target wrapper.
C2_RelayStepByStep ==
    (backend = "luau" /\ Taken /\ br.type = "Br" /\ br.target > 0) =>
        /\ relay = SpecRelay(br.target)
        /\ frames[TargetOf(br.target)] # "Backward" =>
               landing = <<RefLanding(br.target)>>

\* C3: goto-capable backend: Br(up) jumps to the label of the frame `up`
\* steps from the innermost one, and running the emitted jumps reaches the
\* same next statement as the input tree's branch semantics.
C3_GotoReachesSamePosition ==
    /\ (backend = "luajit" /\ br_span # <<>> /\ br.type = "Br") =>
           SubSeq(out, br_span[1], br_span[2]) =
               <<Tok("goto continue_at_{level} ",
                     br_labels[Len(br_labels) - br.target], 0)>>
    /\ (backend = "luajit" /\ Taken) =>
           /\ relay[1] = Eff("goto", br_labels[Len(br_labels) - TakenDepth])
           /\ landing = <<RefLanding(TakenDepth)>>
\* A branch to a Backward two levels out, taken from inside an If.
C3_Witness ==
    /\ backend = "luajit"
    /\ Taken
    /\ frames = <<"Forward", "Backward", "If">>
    /\ TakenDepth = 1
    /\ landing = <<PreId(2)>>
(***************************************************************************)
(* Maximal constant runs of a target list, stated without the algorithm.   *)
(***************************************************************************)
\* 0-based indices at which a new run begins.
RunStarts(list) ==
    {i \in 0..(Len(list) - 1) : i = 0 \/ list[i] # list[i + 1]}
NumRuns(list) == Cardinality(RunStarts(list))
\* First and last index (0-based) of the k-th maximal run.
RunStart(list, k) ==
    CHOOSE x \in RunStarts(list) :
        Cardinality({y \in RunStarts(list) : y < x}) = k - 1
RunLast(list, k) ==
    IF k = NumRuns(list) THEN Len(list) - 1 ELSE RunStart(list, k + 1) - 1

\* C4: condense_jump_table: a list of length N (0 included) with K maximal
\* runs yields exactly K tuples (start, end, target), ordered by start, whose
\* inclusive ranges cover 0..N-1 exactly once, each index in a range maps to
\* the tuple's target, and adjacent tuples differ in target;
\* [0,0,0,1,1,2] yields [(0,2,0),(3,4,1),(5,5,2)].
C4_CondensePartitionsIntoRuns ==
    phase = "condensed" =>
        LET list == br.table
            K == Len(runs)
        IN /\ K = NumRuns(list)
           /\ \A k \in 1..K :
                 /\ runs[k][1] <= runs[k][2]
                 /\ runs[k][1] = (IF k = 1 THEN 0 ELSE runs[k - 1][2] + 1)
                 /\ \A i \in runs[k][1]..runs[k][2] :
                       i < Len(list) /\ list[i + 1] = runs[k][3]
                 /\ k < K => runs[k][3] # runs[k + 1][3]
           /\ (IF K = 0 THEN Len(list) = 0 ELSE runs[K][2] = Len(list) - 1)
           /\ list = <<0, 0, 0, 1, 1, 2>> =>
                 runs = <<<<0, 2, 0>>, <<3, 4, 1>>, <<5, 5, 2>>>>
\* The list of the example has been condensed.
C4_Witness ==
    /\ phase = "condensed"
    /\ br.table = <<0, 0, 0, 1, 1, 2>>
    /\ Len(runs) = 3

\* The tokens of the lowered branch.
BranchToks == SubSeq(out, br_span[1], br_span[2])
IsGuard(tk) == tk.t \in GuardToks
IsGoto(tk) == tk.t = "goto continue_at_{level} "
\* The label a relative depth resolves to where the branch was lowered.
Resolved(d) == br_labels[Len(br_labels) - d]

\* C5: goto-capable BrTable, non-empty target list: one guard per condensed
\* run, in run order (equality test for a one-value run, inclusive range test
\* otherwise), each guarding the jump to its run's target, then one
\* unconditional jump to the default; and for every discriminant v the chain
\* jumps to the label of targets[v] when v is an index of the list and to the
\* label of default otherwise.
C5_GuardChainPerRun ==
    /\ (backend = "luajit" /\ br_span # <<>> /\ br.type = "BrTable"
            /\ br.table # <<>>) =>
           LET K == NumRuns(br.table)
               n == Len(BranchToks)
           IN /\ Len(SelectSeq(BranchToks, IsGuard)) = K
              /\ Len(SelectSeq(BranchToks, IsGoto)) = K + 1
              /\ \A k \in 1..K :
                    LET s == RunStart(br.table, k)
                        e == RunLast(br.table, k)
                    IN /\ SelectSeq(BranchToks, IsGuard)[k] =
                              (IF s = e
                               THEN Tok("if temp == {start} then ", s, 0)
                               ELSE Tok("if temp >= {start} and temp <= {end} then ",
                                        s, e))
                       /\ BranchToks[3 * k] = SelectSeq(BranchToks, IsGuard)[k]
                       /\ BranchToks[3 * k + 1] =
                              Tok("goto continue_at_{level} ",
                                  Resolved(br.table[s + 1]), 0)
              /\ SubSeq(BranchToks, n - 2, n) =
                     <<W(" "),
                       Tok("goto continue_at_{level} ", Resolved(br.default), 0),
                       W("end ")>>
    /\ (backend = "luajit" /\ Taken /\ br.type = "BrTable" /\ br.table # <<>>) =>
           relay[1] = Eff("goto", Resolved(TakenDepth))
\* A chain with a range guard and an equality guard has been run, and the
\* discriminant selected the second run.
C5_Witness ==
    /\ backend = "luajit"
    /\ Taken
    /\ br.type = "BrTable"
    /\ br.table = <<1, 1, 0>>
    /\ temp = 2
    /\ relay[1] = Eff("goto", Resolved(0))

\* The control effects of a lowered Br, in order.
IsEffect(tk) == tk.t \in {"desired = {level} ", "break ", "continue "}
EffectOf(tk) ==
    CASE tk.t = "desired = {level} " -> Eff("set", tk.a)
      [] tk.t = "break " -> Eff("break", 0)
      [] tk.t = "continue " -> Eff("continue", 0)
BrEffects(d) ==
    LET toks == SelectSeq(Luau_write_br_at(d, br_labels), IsEffect)
    IN [i \in 1..Len(toks) |-> EffectOf(toks[i])]

\* C6: structured-only BrTable: for every discriminant v the depth d is
\* targets[v] (default when v is no index) and control is transferred exactly
\* as Br(d) lowered at the same place transfers it: d = 0 is a native
\* continue/break with no sentinel write, d > 0 writes the sentinel value
\* Br(d) writes and breaks.
C6_BrTableTransfersAsBr ==
    (backend = "luau" /\ Taken /\ br.type = "BrTable") =>
        SubSeq(relay, 1, Len(BrEffects(TakenDepth))) = BrEffects(TakenDepth)

\* What Br(d) emits where the branch was lowered.
BrOutput(d) ==
    IF backend = "luau" THEN Luau_write_br_at(d, br_labels)
    ELSE Jit_write_br_at(d, br_labels)
EmptyTableLowered ==
    br_span # <<>> /\ br.type = "BrTable" /\ br.table = <<>>
EmitsAsBr ==
    /\ BranchToks = BrOutput(br.default)
    /\ \A i \in 1..Len(BranchToks) : BranchToks[i].t # "<expr>"

\* C7 as claimed: an empty BrTable with default d lowers to exactly the output
\* of Br(d) in both backends, and the discriminant is not emitted.
C7_EmptyTableAsBrBothBackends == EmptyTableLowered => EmitsAsBr
\* C7 as amended: that holds in the goto-capable backend.
C7_EmptyTableAsBrGoto ==
    (backend = "luajit" /\ EmptyTableLowered) => EmitsAsBr
\* An empty table with a non-local default has been lowered by luajit.
C7_Witness ==
    /\ backend = "luajit"
    /\ EmptyTableLowered
    /\ br.default = 2
    /\ Len(br_labels) = 3

\* C8: structured-only depth-0 branch: Br(0), and BrIf(c, 0) when c is
\* non-zero, is a native continue when the innermost frame is Backward and a
\* native break otherwise; the sentinel is not written and keeps its value
\* (absent, as before the branch).
C8_DepthZeroIsNative ==
    (backend = "luau" /\ br.type \in {"Br", "BrIf"} /\ br.target = 0) =>
        /\ br_span # <<>> =>
              SelectSeq(BranchToks, IsEffect) =
                  <<IF Last(frames) = "Backward" THEN W("continue ")
                    ELSE W("break ")>>
        /\ branched =>
              /\ relay[1] = Eff(IF Last(frames) = "Backward" THEN "continue"
                                ELSE "break", 0)
              /\ \A i \in 1..Len(relay) : relay[i].e # "set"
              /\ desired = <<>>
\* A BrIf(c, 0) in a loop body was taken and restarted the loop.
C8_Witness ==
    /\ backend = "luau"
    /\ Taken
    /\ br.type = "BrIf"
    /\ br.target = 0
    /\ Last(frames) = "Backward"
    /\ landing = <<PreId(Len(frames))>>

\* Forward and Backward nodes of an input tree.
RECURSIVE CountBlocks(_)
RECURSIVE CountBlocksIn(_, _)
CountBlocks(node) ==
    (IF node.type \in {"Forward", "Backward"} THEN 1 ELSE 0)
    + CountBlocksIn(node.body, 1) + CountBlocksIn(node.falsey, 1)
CountBlocksIn(seq, i) ==
    IF i > Len(seq) THEN 0 ELSE CountBlocks(seq[i]) + CountBlocksIn(seq, i + 1)
IsAnchor(tk) == tk.t = "::continue_at_{label}::"

\* C9: goto-capable backend: the anchors emitted for a function are as many as
\* its Forward and Backward nodes (an If emits none), and every jump of a Br
\* or BrTable names the label of a frame on the scope stack when it is
\* emitted.
C9_AnchorsAndJumpTargets ==
    backend = "luajit" =>
        /\ phase \in {"exec", "done"} =>
              Len(SelectSeq(out, IsAnchor)) = CountBlocks(Code)
        /\ br_span # <<>> =>
              \A i \in br_span[1]..br_span[2] :
                  IsGoto(out[i]) => out[i].a \in Range(br_labels)
\* A function with a loop, an If with both arms and a two-way table is lowered.
C9_Witness ==
    /\ backend = "luajit"
    /\ phase = "exec"
    /\ frames = <<"Forward", "Backward", "If">>
    /\ with_else
    /\ br.type = "BrTable"
    /\ br.table = <<2>>
    /\ Len(SelectSeq(out, IsAnchor)) = 4

\* C10: scope stack balance, both backends: every statement is lowered under
\* the stack its predecessor was lowered under (a block pushes one frame
\* before its body, the body runs under that stack, and the block pops that
\* frame after it), and the stack is empty once the function is lowered.
C10_ScopeStackBalanced ==
    /\ (phase = "lower" /\ todo # <<>>) => label_list = Head(todo).expect
    /\ phase \in {"exec", "done"} => label_list = <<>>
\* The innermost of three constructs is about to pop its frame.
C10_Witness ==
    /\ backend = "luau"
    /\ phase = "lower"
    /\ todo # <<>>
    /\ Head(todo).k = "If_end"
    /\ label_list = <<"Forward", "Backward", "If">>

\* Label identifiers in use: those of the frames on the stack and those of
\* the anchors already written.
AnchorLabels == {out[i].a : i \in {j \in 1..Len(out) : IsAnchor(out[j])}}
LabelsInUse == Range(label_list) \cup AnchorLabels
Pushed == Len(label_list') = Len(label_list) + 1

C12_SinkFailureAborts ==
    /\ [](fail_at > 0 =>
            /\ Len(out) < fail_at
            /\ phase \in {"unwind", "failed"} => Len(out) = fail_at - 1
            /\ phase = "failed" => todo = <<>>)
    /\ [][(phase \in {"unwind", "failed"}) =>
              (out' = out /\ phase' \in {"unwind", "failed"})]_vars
\* The write of a statement in a nested construct failed; the error was
\* returned with both frames still on the stack.
C12_Witness ==
    /\ backend = "luau"
    /\ phase = "failed"
    /\ label_list = <<"Forward", "Backward">>
    /\ Len(out) = fail_at - 1
    /\ out[Len(out)].t = "while true do "

\* The emitted program is at an input statement / has left the outermost
\* wrapper and is about to return.
AtStatement == phase \in {"exec", "done"} /\ pc <= Len(out) /\ out[pc].t = "<stmt>"
AtReturn == phase \in {"exec", "done"} /\ pc <= Len(out) /\ AtFunctionEnd(pc)

\* C13: sentinel quiescence in the structured-only output: the sentinel is
\* absent at function entry, absent whenever execution reaches an input
\* statement, and absent when the outermost wrapper has been left: every
\* sentinel write of a Br, BrIf or BrTable is cleared before an ordinary
\* statement runs and before the function returns, whichever frame was
\* targeted.
C13_SentinelQuiescent ==
    backend = "luau" =>
        /\ (phase = "exec" /\ pc = 1) => desired = <<>>
        /\ AtStatement => desired = <<>>
        /\ AtReturn => desired = <<>>

\* The wrappers of the structured-only output, and what follows each.
Wrappers == {i \in 1..Len(out) : out[i].t = "while true do "}
IsPostCheck(p) == p <= Len(out) /\ out[p].t = "if desired then "
AfterWrapper(i) == MatchEnd(i) + 1
OnePostCheck(i) ==
    /\ IsPostCheck(AfterWrapper(i))
    /\ ~IsPostCheck(MatchEnd(AfterWrapper(i)) + 1)
Outermost(i) == \A j \in Wrappers : ~(j < i /\ MatchEnd(j) > i)
\* The function has just been lowered (the sink does not change afterwards).
Lowered == backend = "luau" /\ phase = "exec" /\ pc = 1
\* A post-check reached with the sentinel absent is skipped as a whole.
AbsentIsNoOp ==
    (backend = "luau" /\ phase = "exec" /\ pc <= Len(out)
        /\ out[pc].t = "if desired then " /\ desired = <<>> /\ phase' = "exec") =>
        /\ pc' = MatchEnd(pc) + 1
        /\ desired' = desired
        /\ relay' = relay

IsSet(e) == e.e = "set"
IsCheck(e) == e.e \in {"hit", "miss"}
SentinelWrites == SelectSeq(relay, IsSet)
PostChecks == SelectSeq(relay, IsCheck)
NonLocalTaken == Taken /\ TakenDepth > 0

\* C15: relay cost and termination in the structured-only output: a
\* non-local branch writes the sentinel exactly once; no post-check runs
\* twice for it and at most as many run as there are active frames; and when
\* the relay is over the sentinel is cleared or the outermost wrapper has
\* been left.
C15_RelayIsLinear ==
    backend = "luau" =>
        /\ Len(SentinelWrites) <= 1
        /\ NonLocalTaken => Len(SentinelWrites) = 1
        /\ Len(PostChecks) <= Len(frames)
        /\ \A i, j \in 1..Len(PostChecks) :
              i < j => PostChecks[i].a # PostChecks[j].a
        /\ NonLocalTaken => (desired = <<>> \/ landing = <<0>>)
\* A Br(1) three constructs deep was relayed through two post-checks and
\* cleared.
C15_Witness ==
    /\ backend = "luau"
    /\ NonLocalTaken
    /\ br.type = "Br"
    /\ Len(frames) = 3
    /\ Len(PostChecks) = 2
    /\ PostChecks[2].e = "hit"
    /\ desired = <<>>

\* The branch names a depth that is not less than the number of frames
\* active where it stands.
OutOfRange ==
    \/ br.type \in {"Br", "BrIf"} /\ br.target >= Len(frames)
    \/ br.type = "BrTable"
         /\ (br.default >= Len(frames)
             \/ \E i \in 1..Len(br.table) : br.table[i] >= Len(frames))
ReturnedError == phase \in {"unwind", "failed"}
CompletedNormally == phase \in {"exec", "done"}

\* C16 as claimed: in both backends, lowering a branch with an out-of-range
\* depth neither returns an I/O error value nor completes normally.
C16_OutOfRangeIsFatal ==
    OutOfRange => (~ReturnedError /\ ~CompletedNormally)
\* C16 as amended: no I/O error value is returned for it in either backend;
\* the goto-capable backend never completes normally and emits no branch for
\* it; the structured-only backend does not complete a Br or BrIf in a build
\* with overflow checks (it does otherwise, and it always completes a
\* BrTable).
C16_OutOfRangeIsFatalWhereResolved ==
    OutOfRange =>
        /\ ~ReturnedError
        /\ backend = "luajit" => (~CompletedNormally /\ br_span = <<>>)
        /\ (backend = "luau" /\ br.type \in {"Br", "BrIf"} /\ overflow_checks) =>
               (~CompletedNormally /\ br_span = <<>>)
\* The goto-capable backend panicked at the default of a table whose only
\* target did resolve, after the guard of that target was written.
C16_Witness ==
    /\ backend = "luajit"
    /\ OutOfRange
    /\ phase = "panic"
    /\ br.type = "BrTable"
    /\ Len(br.table) = 1
    /\ out[Len(out)].t = " "
====
